---------------------------- MODULE Spec2Model ----------------------------
(***************************************************************************)
(* Model of steamApp.py: the /value handler, the two MySQL-backed caches   *)
(* (inventory_values, item_prices), the retrying fetch wrapper             *)
(* safe_request and the two price sources.                                 *)
(*                                                                         *)
(* Units.  Money is counted in mills (1/1000 USD), so that sub-cent prices *)
(* such as "$1.234" and round(x, 2) are representable with integers.       *)
(* Clock readings are seconds.  Sleep delays are tenths of a second        *)
(* (backoff = 1.5 s is 15).  Binary floating point noise is not modelled:  *)
(* sums of prices are exact.                                               *)
(***************************************************************************)
EXTENDS Integers, Sequences, FiniteSets, TLC

(***************************************************************************)
(* Program constants                                                       *)
(***************************************************************************)
\* set_cached_value(db, steamid, value, ttl=300)
VAL_TTL == 300
\* set_item_cache(db, market_hash, price, ttl=3600)
ITEM_TTL == 3600
\* safe_request(url, headers=None, retries=3, backoff=1.5): retries
RETRIES == 3
\* safe_request(..., backoff=1.5), in tenths of a second
BACKOFF == 15

(***************************************************************************)
(* Bounds of the model                                                     *)
(***************************************************************************)
\* longest inventory ("descriptions" list) a request is given
MaxItems == 2
\* how many times the clock is advanced in a behaviour
MaxTicks == 1
\* how many requests the worker serves in a behaviour
MaxRequests == 2
\* largest attempt budget safe_request is called with in SpecFetch
MaxRetries == 4
\* entries of an inventory when two requests run at once
MaxConcItems == 1

(***************************************************************************)
(* Optional values: Python's None and a present value                      *)
(***************************************************************************)
None == [some |-> FALSE, v |-> 0]
Some(x) == [some |-> TRUE, v |-> x]

(***************************************************************************)
(* Strings are sequences of tokens.  In a URL the tokens "/profiles/",     *)
(* "/id/" and "/" are the separators the code splits on; every other token *)
(* is a piece of text without a slash.  NoStr is an absent string (None).  *)
(***************************************************************************)
NoStr == [none |-> TRUE, s |-> <<>>]
Str(s) == [none |-> FALSE, s |-> s]

\* index of the first occurrence of token tok in s at or after i, 0 if none
RECURSIVE IndexFrom(_, _, _)
IndexFrom(s, tok, i) ==
    IF i > Len(s) THEN 0
    ELSE IF s[i] = tok THEN i
    ELSE IndexFrom(s, tok, i + 1)

\* tokens that contain a slash: a split on "/" ends a piece at any of them
IsSlashToken(t) == t \in {"/", "/profiles/", "/id/"}

\* s[i..] up to, not including, the first token that satisfies IsSlashToken
RECURSIVE UpToSlash(_, _)
UpToSlash(s, i) ==
    IF i > Len(s) \/ IsSlashToken(s[i]) THEN <<>>
    ELSE <<s[i]>> \o UpToSlash(s, i + 1)

\* url.split(marker)[1].split("/")[0]
AfterMarker(s, marker) == UpToSlash(s, IndexFrom(s, marker, 1) + 1)

\* extract_steamid(url): the text after "/profiles/" or else after "/id/", up
\* to the next slash; None when url is None (the TypeError of `in` is caught)
\* or holds neither marker (the function falls off its end)
extract_steamid(url) ==
    IF url.none THEN NoStr
    ELSE IF IndexFrom(url.s, "/profiles/", 1) > 0
         THEN Str(AfterMarker(url.s, "/profiles/"))
    ELSE IF IndexFrom(url.s, "/id/", 1) > 0
         THEN Str(AfterMarker(url.s, "/id/"))
    ELSE NoStr

\* `not steamid`: None and the empty string are falsy
Falsy(str) == str.none \/ Len(str.s) = 0

(***************************************************************************)
(* The two cache tables.  A row is [present, value, expires_at]; REPLACE   *)
(* INTO overwrites the row of its key.  expires_at is computed by the      *)
(* application from datetime.utcnow(); the SELECTs compare it with the     *)
(* server's NOW(), which is the time of day in the session time zone.      *)
(***************************************************************************)
NoRow == [present |-> FALSE, value |-> 0, expires_at |-> 0]

\* SELECT value FROM inventory_values WHERE steamid=%s AND expires_at > NOW()
get_cached_value(table, steamid, now) ==
    IF table[steamid].present /\ table[steamid].expires_at > now
    THEN Some(table[steamid].value)
    ELSE None

\* REPLACE INTO inventory_values (steamid, value, expires_at)
set_cached_value(table, steamid, value, utcnow, ttl) ==
    [table EXCEPT ![steamid] =
        [present |-> TRUE, value |-> value, expires_at |-> utcnow + ttl]]

\* SELECT price FROM item_prices WHERE market_hash=%s AND expires_at > NOW()
get_item_cache(table, market_hash, now) ==
    IF table[market_hash].present /\ table[market_hash].expires_at > now
    THEN Some(table[market_hash].value)
    ELSE None

\* REPLACE INTO item_prices (market_hash, price, expires_at)
set_item_cache(table, market_hash, price, utcnow, ttl) ==
    [table EXCEPT ![market_hash] =
        [present |-> TRUE, value |-> price, expires_at |-> utcnow + ttl]]

(***************************************************************************)
(* safe_request.  The upstream's answer to one requests.get is one of      *)
(*   "200"      status 200 with a body r.json() parses,                    *)
(*   "200-bad"  status 200 with a body r.json() cannot parse,              *)
(*   "429"      rate limited,                                              *)
(*   "404"      any other status,                                          *)
(*   "timeout"  requests.get raises a RequestException.                    *)
(* r.json() on an unparsable body raises requests.JSONDecodeError, which   *)
(* is a RequestException from requests 2.27 on and a plain ValueError      *)
(* before; the repository pins no version, so the except clause catching   *)
(* it (jsonCaught) is a property of the build.                             *)
(***************************************************************************)
Outcomes == {"200", "200-bad", "429", "404", "timeout"}

GetEvent(o) == [e |-> "get", o |-> o, d |-> 0]
SleepEvent(d) == [e |-> "sleep", o |-> "", d |-> d]

\* a variant of Delay: the delay counts down from the budget
DelayShrinking(backoff, attempt) == backoff * (RETRIES + MaxRetries - attempt)

\* time.sleep(backoff * (attempt + 1)), attempt counted from 0
Delay(backoff, attempt) == backoff * (attempt + 1)

\* a variant of OnOutcome: a transport failure ends the loop
OnOutcomeTimeoutAborts(o, jsonCaught) ==
    CASE o = "200" -> "return"
      [] o = "200-bad" -> IF jsonCaught THEN "sleep" ELSE "raise"
      [] o = "429" -> "sleep"
      [] OTHER -> "break"

\* a variant of OnOutcome: every status but 200 is retried
OnOutcomeRetryAll(o, jsonCaught) ==
    CASE o = "200" -> "return"
      [] o = "200-bad" -> IF jsonCaught THEN "sleep" ELSE "raise"
      [] OTHER -> "sleep"

\* what one iteration of the loop does with the outcome of its request:
\* "return" the payload, "sleep" and go on, "break" out of the loop, or
\* "raise" past safe_request
OnOutcome(o, jsonCaught) ==
    CASE o = "200" -> "return"
      [] o = "200-bad" -> IF jsonCaught THEN "sleep" ELSE "raise"
      [] o = "429" -> "sleep"
      [] o = "timeout" -> "sleep"
      [] OTHER -> "break"

\* the for loop from iteration `attempt` on; outs[attempt + 1] is the
\* upstream's answer to that iteration's request
RECURSIVE SafeRequestLoop(_, _, _, _, _, _)
SafeRequestLoop(attempt, outs, retries, backoff, jsonCaught, trace) ==
    IF attempt >= retries THEN [ret |-> "none", trace |-> trace]
    ELSE LET o == outs[attempt + 1]
             t1 == Append(trace, GetEvent(o))
             act == OnOutcome(o, jsonCaught)
         IN CASE act = "return" -> [ret |-> "payload", trace |-> t1]
              [] act = "raise" -> [ret |-> "raised", trace |-> t1]
              [] act = "break" -> [ret |-> "none", trace |-> t1]
              [] OTHER ->
                   SafeRequestLoop(attempt + 1, outs, retries, backoff, jsonCaught,
                       Append(t1, SleepEvent(Delay(backoff, attempt))))

\* safe_request(url, headers, retries, backoff) against an upstream that
\* answers outs[1], outs[2], ...: ret is "payload" (r.json() returned),
\* "none" (return None) or "raised"; trace is what it did, in order
safe_request(outs, retries, backoff, jsonCaught) ==
    SafeRequestLoop(0, outs, retries, backoff, jsonCaught, <<>>)

Attempts(trace) == Len(SelectSeq(trace, LAMBDA ev : ev.e = "get"))
Sleeps(trace) == SelectSeq(trace, LAMBDA ev : ev.e = "sleep")

\* all sequences of length n over S
RECURSIVE SeqsOfLen(_, _)
SeqsOfLen(S, n) ==
    IF n = 0 THEN {<<>>}
    ELSE {Append(s, x) : s \in SeqsOfLen(S, n - 1), x \in S}

\* all sequences of length 0..n over S
RECURSIVE SeqsUpTo(_, _)
SeqsUpTo(S, n) ==
    IF n = 0 THEN {<<>>} ELSE SeqsUpTo(S, n - 1) \cup SeqsOfLen(S, n)

\* what safe_request with the default budget can return to its caller, over
\* every sequence of upstream answers, in a build that catches the JSON
\* error and in one that does not
DefaultReturnsCaught ==
    {safe_request(outs, RETRIES, BACKOFF, TRUE).ret :
        outs \in SeqsOfLen(Outcomes, RETRIES)}
DefaultReturnsUncaught ==
    {safe_request(outs, RETRIES, BACKOFF, FALSE).ret :
        outs \in SeqsOfLen(Outcomes, RETRIES)}
DefaultReturns(caught) ==
    IF caught THEN DefaultReturnsCaught ELSE DefaultReturnsUncaught

(***************************************************************************)
(* JSON values the price sources return.  A member of an object is a Field *)
(* [t, n, s]: missing, null, a boolean (n is 0 or 1), a number n, or a     *)
(* string s given as its sequence of characters.  A payload is             *)
(*   [t |-> "list", len, e0, ...]  an array of len elements whose first is *)
(*                                 of type e0 ("object" or "string"), or   *)
(*   [t |-> "object", len, ...]    an object of len members;               *)
(* price, success, lowest_price, median_price are the members of that      *)
(* first element, or of the object itself.                                 *)
(***************************************************************************)
Missing == [t |-> "missing", n |-> 0, s |-> <<>>]
Null == [t |-> "null", n |-> 0, s |-> <<>>]
Bool(b) == [t |-> "bool", n |-> IF b THEN 1 ELSE 0, s |-> <<>>]
Num(n) == [t |-> "number", n |-> n, s |-> <<>>]
Text(s) == [t |-> "string", n |-> 0, s |-> s]

\* Python truthiness of a member as d.get(name) returns it
Truthy(f) ==
    CASE f.t = "missing" -> FALSE
      [] f.t = "null" -> FALSE
      [] f.t = "bool" -> f.n = 1
      [] f.t = "number" -> f.n # 0
      [] OTHER -> Len(f.s) > 0

Listing(len, e0, price) ==
    [t |-> "list", len |-> len, e0 |-> e0, price |-> price,
     success |-> Missing, lowest_price |-> Missing, median_price |-> Missing]

Overview(len, success, lowest, median) ==
    [t |-> "object", len |-> len, e0 |-> "", price |-> Missing,
     success |-> success, lowest_price |-> lowest, median_price |-> median]

PricePayloads ==
    { Listing(0, "", Missing),                         \* []
      Listing(1, "object", Num(150)),                  \* [{"price": 150}]
      Listing(1, "object", Text(<<"1", "5", "0">>)),   \* [{"price": "150"}]
      Listing(1, "object", Bool(FALSE)),               \* [{"price": false}]
      Listing(1, "object", Missing),                   \* [{}]
      Listing(1, "object", Null),                      \* [{"price": null}]
      Listing(1, "object", Text(<<"a", "b">>)),        \* [{"price": "ab"}]
      Listing(1, "object", Num(-5)),                   \* [{"price": -5}]
      Listing(1, "string", Missing),                   \* ["x"]
      Overview(0, Missing, Missing, Missing),          \* {}
      Overview(1, Bool(FALSE), Missing, Missing),      \* {"success": false}
      Overview(1, Bool(TRUE), Missing, Missing),       \* {"success": true}
      Overview(2, Bool(TRUE), Text(<<"$", "1", ".", "2", "3", "4">>), Missing),
      Overview(3, Bool(TRUE), Text(<<>>), Text(<<" ", "1", ".", "2", "3", "4">>)),
      Overview(2, Bool(TRUE), Text(<<"N", "/", "A">>), Missing),
      Overview(2, Bool(TRUE), Text(<<"-", "$", "0", ".", "0", "5", " ">>), Missing),
      Overview(2, Bool(TRUE), Text(<<"$", "0", ",", "0", "0", "1", ".", "2", "3", "4">>), Missing),
      Overview(2, Bool(TRUE), Num(150), Missing) }     \* "lowest_price": 150

(***************************************************************************)
(* float(): a Python float is its value in thousandths.  The strings of    *)
(* PricePayloads carry at most three fraction digits, which FracMills      *)
(* reads exactly.                                                          *)
(***************************************************************************)
DigitChars == <<"0", "1", "2", "3", "4", "5", "6", "7", "8", "9">>
IsDigit(c) == IndexFrom(DigitChars, c, 1) > 0
DigitVal(c) == IndexFrom(DigitChars, c, 1) - 1
AllDigits(s) == \A i \in 1..Len(s) : IsDigit(s[i])

RECURSIVE IntVal(_)
IntVal(s) ==
    IF Len(s) = 0 THEN 0
    ELSE 10 * IntVal(SubSeq(s, 1, Len(s) - 1)) + DigitVal(s[Len(s)])

FracMills(s) ==
    (IF Len(s) >= 1 THEN 100 * DigitVal(s[1]) ELSE 0)
    + (IF Len(s) >= 2 THEN 10 * DigitVal(s[2]) ELSE 0)
    + (IF Len(s) >= 3 THEN DigitVal(s[3]) ELSE 0)

\* str.replace(ch, "")
Remove(s, ch) == SelectSeq(s, LAMBDA c : c # ch)

\* str.strip()
RECURSIVE Strip(_)
Strip(s) ==
    IF Len(s) = 0 THEN s
    ELSE IF s[1] = " " THEN Strip(Tail(s))
    ELSE IF s[Len(s)] = " " THEN Strip(SubSeq(s, 1, Len(s) - 1))
    ELSE s

\* float(str): [ok, v]; ~ok is the ValueError
FloatOfStr(str) ==
    LET s == Strip(str)
        signed == Len(s) > 0 /\ s[1] \in {"-", "+"}
        body == IF signed THEN Tail(s) ELSE s
        dot == IndexFrom(body, ".", 1)
        ip == IF dot = 0 THEN body ELSE SubSeq(body, 1, dot - 1)
        fp == IF dot = 0 THEN <<>> ELSE SubSeq(body, dot + 1, Len(body))
        ok == AllDigits(ip) /\ AllDigits(fp) /\ Len(ip) + Len(fp) > 0
        mag == 1000 * IntVal(ip) + FracMills(fp)
    IN IF ~ok THEN [ok |-> FALSE, v |-> 0]
       ELSE [ok |-> TRUE, v |-> IF signed /\ s[1] = "-" THEN 0 - mag ELSE mag]

\* float(x) for a JSON member: a number converts, a string is parsed, None
\* (json null) is a TypeError
FloatOf(f) ==
    CASE f.t = "number" -> [ok |-> TRUE, v |-> 1000 * f.n]
      [] f.t = "bool" -> [ok |-> TRUE, v |-> 1000 * f.n]
      [] f.t = "string" -> FloatOfStr(f.s)
      [] OTHER -> [ok |-> FALSE, v |-> 0]

Price(v) == [raised |-> FALSE, price |-> v]
Raised == [raised |-> TRUE, price |-> 0]

\* a result of safe_request as get_*_price sees it: None, or the payload
NoData == [none |-> TRUE, j |-> Overview(0, Missing, Missing, Missing)]
Data(j) == [none |-> FALSE, j |-> j]

\* `if data` for a payload: None, [] and {} are falsy
DataTruthy(data) == ~data.none /\ data.j.len > 0

\* get_csfloat_price after safe_request returned data
get_csfloat_price(data) ==
    IF DataTruthy(data) /\ data.j.t = "list"
    THEN IF data.j.e0 # "object" THEN Raised   \* data[0].get: AttributeError
         ELSE LET price == IF data.j.price.t = "missing" THEN Num(0)
                           ELSE data.j.price
                  f == FloatOf(price)
              IN IF f.ok THEN Price(f.v \div 100) ELSE Price(0)
    ELSE Price(0)

\* get_steam_market_price after safe_request returned data
get_steam_market_price(data) ==
    IF ~DataTruthy(data) THEN Price(0)
    ELSE IF data.j.t # "object" THEN Raised     \* data.get: AttributeError
    ELSE IF ~Truthy(data.j.success) THEN Price(0)
    ELSE LET price_str == IF Truthy(data.j.lowest_price)
                          THEN data.j.lowest_price
                          ELSE data.j.median_price
         IN IF ~Truthy(price_str) THEN Price(0)
            ELSE IF price_str.t # "string" THEN Raised   \* .replace
            ELSE LET f == FloatOfStr(Remove(Remove(price_str.s, "$"), ","))
                 IN IF f.ok THEN Price(f.v) ELSE Price(0)

\* what each price source can return, over every payload of PricePayloads
CsfloatResults == {get_csfloat_price(Data(j)) : j \in PricePayloads}
SteamResults == {get_steam_market_price(Data(j)) : j \in PricePayloads}

\* lines 119-122 of get_item_price after safe_request returned ret: the
\* results of the source the process is configured with
SourceResults(key, ret) ==
    IF ret = "payload"
    THEN IF key THEN CsfloatResults ELSE SteamResults
    ELSE IF key THEN {get_csfloat_price(NoData)}
         ELSE {get_steam_market_price(NoData)}

\* round(x, 2): to the nearest cent (10 mills), a tie to the even cent
Round2(x) ==
    LET q == x \div 10
        r == x % 10
    IN IF r < 5 THEN 10 * q
       ELSE IF r > 5 THEN 10 * (q + 1)
       ELSE IF q % 2 = 0 THEN 10 * q ELSE 10 * (q + 1)

(***************************************************************************)
(* Inputs of a valuation request                                           *)
(***************************************************************************)
\* trade_url values: absent, without a marker, with "/profiles/" or "/id/"
\* followed by an identifier, and with a marker followed by nothing
Urls ==
    { NoStr,
      Str(<<"host", "/", "tradeoffer">>),
      Str(<<"host", "/profiles/">>),
      Str(<<"host", "/profiles/", "/", "u1">>),
      Str(<<"host", "/profiles/", "u1", "/", "inventory">>),
      Str(<<"host", "/id/", "u1">>) }

\* the identifiers the URLs resolve to: the keys of inventory_values
SteamIds == {extract_steamid(u).s : u \in {x \in Urls : ~Falsy(extract_steamid(x))}}

\* the market_hash_name values of the inventories: the keys of item_prices
MarketKeys == {"AK", "AWP"}

\* an element of "descriptions": its market_hash_name member, which may be
\* missing (or null), the empty string, or a name
NoKey == [has |-> FALSE, name |-> ""]
Key(k) == [has |-> TRUE, name |-> k]
Entries == {NoKey, Key("")} \cup {Key(k) : k \in MarketKeys}

\* `not market_hash`
Keyless(entry) == ~entry.has \/ entry.name = ""

(***************************************************************************)
(* Inventory responses.  t is the JSON type of the body; len its size;     *)
(* has_desc whether `"descriptions" in inv` is true; desc_null whether     *)
(* that member is null; items the list it holds otherwise.                 *)
(***************************************************************************)
Inv(t, len, has_desc, desc_null, items) ==
    [t |-> t, len |-> len, has_desc |-> has_desc, desc_null |-> desc_null,
     items |-> items]

InvPayloads ==
    { Inv("object", 0, FALSE, FALSE, <<>>),      \* {}
      Inv("object", 1, FALSE, FALSE, <<>>),      \* {"success": 1}
      Inv("object", 1, TRUE, TRUE, <<>>),        \* {"descriptions": null}
      Inv("list", 1, FALSE, FALSE, <<>>),        \* [1]
      Inv("list", 1, TRUE, FALSE, <<>>),         \* ["descriptions"]
      Inv("number", 1, FALSE, FALSE, <<>>) }     \* 5
    \cup {Inv("object", 1, TRUE, FALSE, its) : its \in SeqsUpTo(Entries, MaxItems)}

\* a variant of InventoryCheck: line 149 without the test for "descriptions"
InventoryCheckNoDescTest(none, inv) ==
    IF none \/ inv.len = 0 THEN "failed"
    ELSE IF inv.t # "object" THEN "raise"
    ELSE IF ~inv.has_desc \/ inv.desc_null \/ Len(inv.items) = 0 THEN "empty"
    ELSE "ok"

\* lines 149-154 on what safe_request returned (none: it returned None):
\* "failed" (502), "empty" (404), "raise" (an exception leaves the handler)
\* or "ok"
InventoryCheck(none, inv) ==
    IF none \/ inv.len = 0 THEN "failed"                 \* not inv
    ELSE IF inv.t = "number" THEN "raise"                \* `in`: TypeError
    ELSE IF ~inv.has_desc THEN "failed"                  \* "descriptions" not in inv
    ELSE IF inv.t # "object" THEN "raise"                \* inv.get: AttributeError
    ELSE IF inv.desc_null \/ Len(inv.items) = 0 THEN "empty"   \* not items
    ELSE "ok"

(***************************************************************************)
(* Responses of /value                                                     *)
(***************************************************************************)
NoResp ==
    [kind |-> "none", status |-> 0, error |-> "", steamid |-> <<>>, total |-> 0,
     cached |-> FALSE, source |-> "", has_items |-> FALSE, items |-> <<>>]

\* jsonify({"error": msg}), status
ErrorResp(msg, status) ==
    [NoResp EXCEPT !.kind = "error", !.status = status, !.error = msg]

\* an exception left the handler: Flask answers 500; error names the
\* function that raised it
ExceptionResp(where) ==
    [NoResp EXCEPT !.kind = "exception", !.status = 500, !.error = where]

\* a variant of CachedResp: the cached total answered with "cached": False
CachedRespNotFlagged(steamid, cached) ==
    [NoResp EXCEPT !.kind = "value", !.status = 200, !.steamid = steamid,
                   !.total = cached, !.cached = FALSE]

\* jsonify({"steamid": steamid, "total": float(cached), "cached": True})
CachedResp(steamid, cached) ==
    [NoResp EXCEPT !.kind = "value", !.status = 200, !.steamid = steamid,
                   !.total = cached, !.cached = TRUE]

\* a variant of ServeCached: the detailed flag is not looked at
ServeCachedAlways(cached, detailed) == cached.some

\* `cached is not None and not detailed`
ServeCached(cached, detailed) == cached.some /\ ~detailed

\* a variant of InsertDesc: an element goes before the elements of its price
RECURSIVE InsertDescBeforeEquals(_, _)
InsertDescBeforeEquals(sorted, x) ==
    IF Len(sorted) = 0 THEN <<x>>
    ELSE IF Head(sorted).price_usd > x.price_usd
         THEN <<Head(sorted)>> \o InsertDescBeforeEquals(Tail(sorted), x)
    ELSE <<x>> \o sorted

\* sorted(item_details, key=lambda x: x["price_usd"], reverse=True): stable,
\* so an element goes after every element whose price is not smaller
RECURSIVE InsertDesc(_, _)
InsertDesc(sorted, x) ==
    IF Len(sorted) = 0 THEN <<x>>
    ELSE IF Head(sorted).price_usd >= x.price_usd
         THEN <<Head(sorted)>> \o InsertDesc(Tail(sorted), x)
    ELSE <<x>> \o sorted

RECURSIVE SortedDesc(_)
SortedDesc(details) ==
    IF Len(details) = 0 THEN <<>>
    ELSE InsertDesc(SortedDesc(SubSeq(details, 1, Len(details) - 1)),
                    details[Len(details)])

\* lines 174-184
ValueResp(sid, total_value, det, item_details, key) ==
    [NoResp EXCEPT !.kind = "value", !.status = 200, !.steamid = sid,
                   !.total = Round2(total_value), !.cached = FALSE,
                   !.source = IF key THEN "CSFloat" ELSE "Steam Market",
                   !.has_items = det,
                   !.items = IF det THEN SortedDesc(item_details) ELSE <<>>]

(***************************************************************************)
(* State                                                                   *)
(***************************************************************************)
VARIABLES
    hasKey,            \* CSFLOAT_API_KEY is set (fixed for the process)
    jsonCaught,        \* requests' JSONDecodeError is a RequestException
    dbOffset,          \* NOW() minus UTC: the session time zone, in seconds
    utcNow,            \* datetime.utcnow(), in seconds
    ticks,             \* how often the clock advanced
    inventory_values,  \* table: steamid -> row
    item_prices,       \* table: market_hash -> row
    pc,                \* where each request is in value()
    steamid,           \* value(): steamid = extract_steamid(trade_url)
    detailed,          \* value(): detailed
    cached,            \* value(): cached
    inv,               \* value(): inv, with how safe_request ended (ret)
    idx,               \* value(): position of the for loop in items
    price,             \* get_item_price(): price
    total_value,       \* value(): total_value
    item_details,      \* value(): item_details
    resp,              \* the response value() returned
    calls,             \* safe_request calls made by the request
    writes,            \* REPLACE statements executed by the request
    resolved,          \* what get_item_price returned, call by call, and how
    jitters,           \* jitter sleeps (line 125) of the request
    served,            \* requests the worker has taken
    fetch              \* SpecFetch: the call of safe_request

config == <<hasKey, jsonCaught, dbOffset>>
clock == <<utcNow, ticks>>
tables == <<inventory_values, item_prices>>
locals == <<steamid, detailed, cached, inv, idx, price, total_value,
            item_details>>
counters == <<calls, writes, resolved, jitters>>
vars == <<config, clock, tables, pc, locals, resp, counters, served, fetch>>

\* the requests the server may be handling at once
Reqs == {"r1", "r2"}

\* NOW() of the database session
NOW == utcNow + dbOffset

\* session time zones: UTC, one hour east and one hour west of it
DbOffsets == {0 - ITEM_TTL, 0, ITEM_TTL}

\* how far one step of the clock goes
TickSteps == {VAL_TTL, ITEM_TTL}

NoFetch == [retries |-> 0, outs |-> <<>>, ret |-> "idle", trace |-> <<>>]

\* inv before safe_request was called
NoInv == [ret |-> "unset", j |-> Inv("object", 0, FALSE, FALSE, <<>>)]

\* line 152: items = inv.get("descriptions", [])
Items(r) == inv[r].j.items

Init ==
    /\ hasKey \in BOOLEAN
    /\ jsonCaught \in BOOLEAN
    /\ dbOffset \in DbOffsets
    /\ utcNow = 0
    /\ ticks = 0
    /\ inventory_values = [u \in SteamIds |-> NoRow]
    /\ item_prices = [k \in MarketKeys |-> NoRow]
    /\ pc = [r \in Reqs |-> "idle"]
    /\ steamid = [r \in Reqs |-> NoStr]
    /\ detailed = [r \in Reqs |-> FALSE]
    /\ cached = [r \in Reqs |-> None]
    /\ inv = [r \in Reqs |-> NoInv]
    /\ idx = [r \in Reqs |-> 0]
    /\ price = [r \in Reqs |-> 0]
    /\ total_value = [r \in Reqs |-> 0]
    /\ item_details = [r \in Reqs |-> <<>>]
    /\ resp = [r \in Reqs |-> NoResp]
    /\ calls = [r \in Reqs |-> 0]
    /\ writes = [r \in Reqs |-> 0]
    /\ resolved = [r \in Reqs |-> <<>>]
    /\ jitters = [r \in Reqs |-> 0]
    /\ served = 0
    /\ fetch = NoFetch

(***************************************************************************)
(* value()                                                                 *)
(***************************************************************************)
\* lines 133-139: read the request, resolve the user
Start(r) ==
    /\ pc[r] = "idle"
    /\ served < MaxRequests
    /\ served' = served + 1
    /\ \E url \in Urls, det \in BOOLEAN :
         LET sid == extract_steamid(url)
         IN /\ steamid' = [steamid EXCEPT ![r] = sid]
            /\ IF Falsy(sid)
               THEN /\ resp' = [resp EXCEPT ![r] = ErrorResp("Invalid URL", 400)]
                    /\ pc' = [pc EXCEPT ![r] = "done"]
                    /\ UNCHANGED detailed
               ELSE /\ detailed' = [detailed EXCEPT ![r] = det]
                    /\ pc' = [pc EXCEPT ![r] = "cache"]
                    /\ UNCHANGED resp
    /\ UNCHANGED <<config, clock, tables, cached, inv, idx, price,
                   total_value, item_details, counters, fetch>>

\* lines 141-144: the cached total
CheckCache(r) ==
    /\ pc[r] = "cache"
    /\ LET c == get_cached_value(inventory_values, steamid[r].s, NOW)
       IN /\ cached' = [cached EXCEPT ![r] = c]
          /\ IF ServeCached(c, detailed[r])
             THEN /\ resp' = [resp EXCEPT ![r] = CachedResp(steamid[r].s, c.v)]
                  /\ pc' = [pc EXCEPT ![r] = "done"]
             ELSE /\ pc' = [pc EXCEPT ![r] = "inventory"]
                  /\ UNCHANGED resp
    /\ UNCHANGED <<config, clock, tables, steamid, detailed, inv, idx, price,
                   total_value, item_details, counters, served, fetch>>

\* an exception raised in `where` leaves value()
Crash(r, where) ==
    /\ resp' = [resp EXCEPT ![r] = ExceptionResp(where)]
    /\ pc' = [pc EXCEPT ![r] = "done"]

\* a variant of FetchInventory: a failed fetch drops the user's cached total
FetchInventoryInvalidating(r) ==
    /\ pc[r] = "inventory"
    /\ calls' = [calls EXCEPT ![r] = @ + 1]
    /\ \E ret \in DefaultReturns(jsonCaught), j \in InvPayloads :
         LET chk == InventoryCheck(ret # "payload", j)
         IN /\ inv' = [inv EXCEPT ![r] =
                         IF ret = "payload" THEN [ret |-> ret, j |-> j]
                         ELSE [NoInv EXCEPT !.ret = ret]]
            /\ CASE ret = "raised" -> Crash(r, "safe_request") /\ UNCHANGED idx
                 [] ret # "raised" /\ chk = "raise" ->
                      Crash(r, "value") /\ UNCHANGED idx
                 [] ret # "raised" /\ chk = "failed" ->
                      /\ resp' = [resp EXCEPT ![r] =
                                    ErrorResp("Failed to fetch inventory", 502)]
                      /\ pc' = [pc EXCEPT ![r] = "done"]
                      /\ UNCHANGED idx
                 [] ret # "raised" /\ chk = "empty" ->
                      /\ resp' = [resp EXCEPT ![r] = ErrorResp("No items found", 404)]
                      /\ pc' = [pc EXCEPT ![r] = "done"]
                      /\ UNCHANGED idx
                 [] OTHER ->
                      /\ idx' = [idx EXCEPT ![r] = 1]
                      /\ pc' = [pc EXCEPT ![r] = "items"]
                      /\ UNCHANGED resp
    /\ inventory_values' =
          IF resp'[r].kind = "error"
          THEN [inventory_values EXCEPT ![steamid[r].s] = NoRow]
          ELSE inventory_values
    /\ UNCHANGED <<config, clock, item_prices, steamid, detailed, cached, price,
                   total_value, item_details, writes, resolved, jitters,
                   served, fetch>>

\* lines 146-157: fetch the inventory and check it
FetchInventory(r) ==
    /\ pc[r] = "inventory"
    /\ calls' = [calls EXCEPT ![r] = @ + 1]
    /\ \E ret \in DefaultReturns(jsonCaught), j \in InvPayloads :
         LET chk == InventoryCheck(ret # "payload", j)
         IN /\ inv' = [inv EXCEPT ![r] =
                         IF ret = "payload" THEN [ret |-> ret, j |-> j]
                         ELSE [NoInv EXCEPT !.ret = ret]]
            /\ CASE ret = "raised" -> Crash(r, "safe_request") /\ UNCHANGED idx
                 [] ret # "raised" /\ chk = "raise" ->
                      Crash(r, "value") /\ UNCHANGED idx
                 [] ret # "raised" /\ chk = "failed" ->
                      /\ resp' = [resp EXCEPT ![r] =
                                    ErrorResp("Failed to fetch inventory", 502)]
                      /\ pc' = [pc EXCEPT ![r] = "done"]
                      /\ UNCHANGED idx
                 [] ret # "raised" /\ chk = "empty" ->
                      /\ resp' = [resp EXCEPT ![r] = ErrorResp("No items found", 404)]
                      /\ pc' = [pc EXCEPT ![r] = "done"]
                      /\ UNCHANGED idx
                 [] OTHER ->
                      /\ idx' = [idx EXCEPT ![r] = 1]
                      /\ pc' = [pc EXCEPT ![r] = "items"]
                      /\ UNCHANGED resp
    /\ UNCHANGED <<config, clock, tables, steamid, detailed, cached, price,
                   total_value, item_details, writes, resolved, jitters,
                   served, fetch>>

\* lines 163-170: get_item_price returned p; it is added to the total and,
\* for a detailed request, to the breakdown.  resolved notes whether the
\* price was fetched (the call went through line 125) or came from the cache
AddPrice(r, p) ==
    /\ total_value' = [total_value EXCEPT ![r] = @ + p]
    /\ item_details' = [item_details EXCEPT ![r] =
          IF detailed[r]
          THEN Append(@, [name |-> Items(r)[idx[r]].name, price_usd |-> Round2(p)])
          ELSE @]
    /\ resolved' = [resolved EXCEPT ![r] =
          Append(@, [name |-> Items(r)[idx[r]].name, price |-> p,
                     fetched |-> pc[r] = "jitter"])]
    /\ idx' = [idx EXCEPT ![r] = @ + 1]

\* a variant of SkipItem: the entry is put into the breakdown before it is
\* passed over
SkipItemListed(r) ==
    /\ pc[r] = "items"
    /\ idx[r] <= Len(Items(r))
    /\ Keyless(Items(r)[idx[r]])
    /\ idx' = [idx EXCEPT ![r] = @ + 1]
    /\ item_details' = [item_details EXCEPT ![r] =
          IF detailed[r]
          THEN Append(@, [name |-> Items(r)[idx[r]].name, price_usd |-> 0])
          ELSE @]
    /\ UNCHANGED <<config, clock, tables, pc, steamid, detailed, cached, inv,
                   price, total_value, resp, counters, served, fetch>>

\* lines 159-162: an entry without a market key is passed over
SkipItem(r) ==
    /\ pc[r] = "items"
    /\ idx[r] <= Len(Items(r))
    /\ Keyless(Items(r)[idx[r]])
    /\ idx' = [idx EXCEPT ![r] = @ + 1]
    /\ UNCHANGED <<config, clock, tables, pc, steamid, detailed, cached, inv,
                   price, total_value, item_details, resp, counters, served,
                   fetch>>

\* a variant of LookupItem: the jitter sleep comes before the test of line 116
LookupItemJittered(r) ==
    /\ pc[r] = "items"
    /\ idx[r] <= Len(Items(r))
    /\ ~Keyless(Items(r)[idx[r]])
    /\ jitters' = [jitters EXCEPT ![r] = @ + 1]
    /\ LET c == get_item_cache(item_prices, Items(r)[idx[r]].name, NOW)
       IN IF c.some
          THEN /\ price' = [price EXCEPT ![r] = c.v]
               /\ AddPrice(r, c.v)
               /\ UNCHANGED pc
          ELSE /\ pc' = [pc EXCEPT ![r] = "fetch"]
               /\ UNCHANGED <<price, total_value, item_details, resolved, idx>>
    /\ UNCHANGED <<config, clock, tables, steamid, detailed, cached, inv, resp,
                   calls, writes, served, fetch>>

\* lines 163, 115-117: get_item_price looks the key up in item_prices; on a
\* hit it returns the cached price at once
LookupItem(r) ==
    /\ pc[r] = "items"
    /\ idx[r] <= Len(Items(r))
    /\ ~Keyless(Items(r)[idx[r]])
    /\ LET c == get_item_cache(item_prices, Items(r)[idx[r]].name, NOW)
       IN IF c.some
          THEN /\ price' = [price EXCEPT ![r] = c.v]
               /\ AddPrice(r, c.v)
               /\ UNCHANGED pc
          ELSE /\ pc' = [pc EXCEPT ![r] = "fetch"]
               /\ UNCHANGED <<price, total_value, item_details, resolved, idx>>
    /\ UNCHANGED <<config, clock, tables, steamid, detailed, cached, inv, resp,
                   calls, writes, jitters, served, fetch>>

\* lines 119-122: the price source configured for the process
FetchPrice(r) ==
    /\ pc[r] = "fetch"
    /\ calls' = [calls EXCEPT ![r] = @ + 1]
    /\ \E ret \in DefaultReturns(jsonCaught) :
         \E res \in SourceResults(hasKey, ret) :
            CASE ret = "raised" -> Crash(r, "safe_request") /\ UNCHANGED price
              [] ret # "raised" /\ res.raised ->
                   /\ Crash(r, IF hasKey THEN "get_csfloat_price"
                               ELSE "get_steam_market_price")
                   /\ UNCHANGED price
              [] OTHER ->
                   /\ price' = [price EXCEPT ![r] = res.price]
                   /\ pc' = [pc EXCEPT ![r] = "put"]
                   /\ UNCHANGED resp
    /\ UNCHANGED <<config, clock, tables, steamid, detailed, cached, inv, idx,
                   total_value, item_details, writes, resolved, jitters,
                   served, fetch>>

\* line 124: set_item_cache(db, market_hash, price)
StorePrice(r) ==
    /\ pc[r] = "put"
    /\ item_prices' = set_item_cache(item_prices, Items(r)[idx[r]].name,
                                     price[r], utcNow, ITEM_TTL)
    /\ writes' = [writes EXCEPT ![r] = @ + 1]
    /\ pc' = [pc EXCEPT ![r] = "jitter"]
    /\ UNCHANGED <<config, clock, inventory_values, locals, resp, calls,
                   resolved, jitters, served, fetch>>

\* lines 125-126: the jitter sleep, after which get_item_price returns
Jitter(r) ==
    /\ pc[r] = "jitter"
    /\ jitters' = [jitters EXCEPT ![r] = @ + 1]
    /\ AddPrice(r, price[r])
    /\ pc' = [pc EXCEPT ![r] = "items"]
    /\ UNCHANGED <<config, clock, tables, steamid, detailed, cached, inv,
                   price, resp, calls, writes, served, fetch>>

\* lines 172-184: after the loop, cache the total and answer
StoreTotal(r) ==
    /\ pc[r] = "items"
    /\ idx[r] > Len(Items(r))
    /\ inventory_values' = set_cached_value(inventory_values, steamid[r].s,
                                            total_value[r], utcNow, VAL_TTL)
    /\ writes' = [writes EXCEPT ![r] = @ + 1]
    /\ resp' = [resp EXCEPT ![r] =
          ValueResp(steamid[r].s, total_value[r], detailed[r], item_details[r],
                    hasKey)]
    /\ pc' = [pc EXCEPT ![r] = "done"]
    /\ UNCHANGED <<config, clock, item_prices, locals, calls, resolved,
                   jitters, served, fetch>>

\* the response is delivered; the worker takes the next request
Finish(r) ==
    /\ pc[r] = "done"
    /\ pc' = [pc EXCEPT ![r] = "idle"]
    /\ steamid' = [steamid EXCEPT ![r] = NoStr]
    /\ detailed' = [detailed EXCEPT ![r] = FALSE]
    /\ cached' = [cached EXCEPT ![r] = None]
    /\ inv' = [inv EXCEPT ![r] = NoInv]
    /\ idx' = [idx EXCEPT ![r] = 0]
    /\ price' = [price EXCEPT ![r] = 0]
    /\ total_value' = [total_value EXCEPT ![r] = 0]
    /\ item_details' = [item_details EXCEPT ![r] = <<>>]
    /\ resp' = [resp EXCEPT ![r] = NoResp]
    /\ calls' = [calls EXCEPT ![r] = 0]
    /\ writes' = [writes EXCEPT ![r] = 0]
    /\ resolved' = [resolved EXCEPT ![r] = <<>>]
    /\ jitters' = [jitters EXCEPT ![r] = 0]
    /\ UNCHANGED <<config, clock, tables, served, fetch>>

\* time passes
Tick ==
    /\ ticks < MaxTicks
    /\ \E d \in TickSteps : utcNow' = utcNow + d
    /\ ticks' = ticks + 1
    /\ UNCHANGED <<config, tables, pc, locals, resp, counters, served, fetch>>

Step(r) ==
    \/ Start(r)
    \/ CheckCache(r)
    \/ FetchInventory(r)
    \/ SkipItem(r)
    \/ LookupItem(r)
    \/ FetchPrice(r)
    \/ StorePrice(r)
    \/ Jitter(r)
    \/ StoreTotal(r)
    \/ Finish(r)

\* one worker: requests are served one after the other
Next == Step("r1") \/ Tick

Spec == Init /\ [][Next]_vars

(***************************************************************************)
(* safe_request on its own, for every attempt budget up to MaxRetries and  *)
(* every sequence of upstream answers                                      *)
(***************************************************************************)
CallSafeRequest ==
    /\ fetch.ret = "idle"
    /\ \E n \in 1..MaxRetries :
         \E outs \in SeqsOfLen(Outcomes, n) :
           LET f == safe_request(outs, n, BACKOFF, jsonCaught)
           IN fetch' = [retries |-> n, outs |-> outs, ret |-> f.ret,
                        trace |-> f.trace]
    /\ UNCHANGED <<config, clock, tables, pc, locals, resp, counters, served>>

NextFetch == CallSafeRequest

SpecFetch == Init /\ [][NextFetch]_vars

(***************************************************************************)
(* Two workers: two requests are handled at once, their statements         *)
(* interleaved in every order (autocommit, one statement at a time)        *)
(***************************************************************************)
\* the inventories of concurrent requests hold at most MaxConcItems entries
ConcBound == \A r \in Reqs : Len(Items(r)) <= MaxConcItems

\* value() from its first line to the line that returns
Handle(r) ==
    \/ Start(r)
    \/ CheckCache(r)
    \/ FetchInventory(r) /\ ConcBound'
    \/ SkipItem(r)
    \/ LookupItem(r)
    \/ FetchPrice(r)
    \/ StorePrice(r)
    \/ Jitter(r)
    \/ StoreTotal(r)

NextConc == Handle("r1") \/ Handle("r2") \/ Tick

SpecConc == Init /\ [][NextConc]_vars

(***************************************************************************)
(* Properties                                                              *)
(***************************************************************************)
\* the names of the entries of an inventory that have a market key, in order
KeyedNames(its) ==
    LET keyed == SelectSeq(its, LAMBDA e : e.has /\ e.name # "")
    IN [i \in 1..Len(keyed) |-> keyed[i].name]

NamesOf(rs) == [i \in 1..Len(rs) |-> rs[i].name]

RECURSIVE SumPrices(_)
SumPrices(rs) ==
    IF Len(rs) = 0 THEN 0 ELSE rs[1].price + SumPrices(Tail(rs))

Count(seq, x) == Cardinality({i \in 1..Len(seq) : seq[i] = x})

\* C1: a request that is not detailed and finds a fresh total in
\* inventory_values answers with that total, flagged cached, in the very step
\* of the lookup: it called no upstream, resolved no price, wrote to no table.
C1_CachedTotalServed ==
    [][\A r \in Reqs :
         ( /\ pc[r] = "cache"
           /\ pc'[r] # "cache"
           /\ ~detailed[r]
           /\ get_cached_value(inventory_values, steamid[r].s, NOW).some )
         => /\ pc'[r] = "done"
            /\ resp'[r].kind = "value"
            /\ resp'[r].cached
            /\ resp'[r].total = inventory_values[steamid[r].s].value
            /\ calls'[r] = 0
            /\ writes'[r] = 0
            /\ resolved'[r] = <<>>
            /\ UNCHANGED tables]_vars

C1_Witness ==
    \E r \in Reqs : pc[r] = "done" /\ resp[r].cached /\ resp[r].total > 0

\* C2: a detailed request is never answered as a cache hit; once it is over
\* it has called for the inventory, and when it ends with a valuation it has
\* resolved every entry that has a market key, whatever inventory_values held.
C2_DetailedRecomputes ==
    \A r \in Reqs :
       detailed[r] =>
          /\ ~resp[r].cached
          /\ pc[r] = "done" =>
                /\ calls[r] >= 1
                /\ inv[r].ret # "unset"
                /\ resp[r].kind = "value" =>
                      /\ NamesOf(resolved[r]) = KeyedNames(Items(r))
                      /\ resp[r].has_items
                      /\ Len(resp[r].items) = Len(KeyedNames(Items(r)))

C2_Witness ==
    \E r \in Reqs :
       /\ pc[r] = "done"
       /\ detailed[r]
       /\ cached[r].some
       /\ resp[r].kind = "value"
       /\ Len(resolved[r]) = 2

\* C3: a row of item_prices is returned by get_item_cache, with exactly the
\* price put, as long as less than ttl has passed on the application's clock
\* since set_item_cache wrote it, and is absent from then on.
C3_PutThenGet ==
    \A k \in MarketKeys :
       item_prices[k].present =>
          LET put == item_prices[k].expires_at - ITEM_TTL
              got == get_item_cache(item_prices, k, NOW)
          IN IF utcNow - put < ITEM_TTL
             THEN got = Some(item_prices[k].value)
             ELSE got = None

\* C4: get_item_price on a key whose row is within its ttl (by the clock that
\* wrote it) returns the price of that row and calls no upstream.
C4_WarmResolution ==
    [][\A r \in Reqs :
         ( /\ pc[r] = "items"
           /\ idx[r] <= Len(Items(r))
           /\ ~Keyless(Items(r)[idx[r]])
           /\ pc'[r] = "fetch" \/ Len(resolved'[r]) = Len(resolved[r]) + 1
           /\ item_prices[Items(r)[idx[r]].name].present
           /\ utcNow < item_prices[Items(r)[idx[r]].name].expires_at )
         => /\ pc'[r] = "items"
            /\ price'[r] = item_prices[Items(r)[idx[r]].name].value
            /\ calls'[r] = calls[r]]_vars

\* the number of "429" answers outs begins with
RECURSIVE LeadingRateLimits(_)
LeadingRateLimits(outs) ==
    IF Len(outs) = 0 \/ outs[1] # "429" THEN 0
    ELSE 1 + LeadingRateLimits(Tail(outs))

\* C5: when the upstream answers k < N times 429 and then 200, safe_request
\* makes exactly k+1 requests, sleeps once after each 429 with delays that
\* never decrease, returns the payload, and does nothing after the 200.
C5_RateLimitedThenOk ==
    LET k == LeadingRateLimits(fetch.outs)
        t == fetch.trace
    IN ( /\ fetch.ret # "idle"
         /\ k < fetch.retries
         /\ fetch.outs[k + 1] = "200" )
       => /\ fetch.ret = "payload"
          /\ Attempts(t) = k + 1
          /\ Len(t) = 2 * k + 1
          /\ t[Len(t)] = GetEvent("200")
          /\ \A i \in 1..k : t[2 * i - 1] = GetEvent("429") /\ t[2 * i].e = "sleep"
          /\ \A i \in 1..(k - 1) : t[2 * i].d <= t[2 * i + 2].d

C5_Witness ==
    /\ fetch.retries = 3
    /\ fetch.outs = <<"429", "429", "200">>
    /\ fetch.ret = "payload"
    /\ Attempts(fetch.trace) = 3

\* C6: a status other than 200 and 429 on attempt j (every earlier attempt
\* having been retried) ends safe_request there: j requests were made, the
\* last thing it did is that request, and it returns None.
C6_OtherStatusAborts ==
    \A j \in 1..Len(fetch.outs) :
       ( /\ fetch.outs[j] = "404"
         /\ \A i \in 1..(j - 1) :
               \/ fetch.outs[i] \in {"429", "timeout"}
               \/ fetch.outs[i] = "200-bad" /\ jsonCaught )
       => /\ fetch.ret = "none"
          /\ Attempts(fetch.trace) = j
          /\ Len(fetch.trace) = 2 * j - 1
          /\ fetch.trace[2 * j - 1] = GetEvent("404")

C6_Witness ==
    /\ fetch.retries = 3
    /\ fetch.outs[1] = "404"
    /\ fetch.ret = "none"
    /\ fetch.trace = <<GetEvent("404")>>

\* C7: safe_request never ends with an exception reaching its caller.
C7_NeverRaises == fetch.ret # "raised"

\* C8: no request ends with an exception raised by get_csfloat_price or
\* get_steam_market_price.
C8_PriceSourceNeverRaises ==
    \A r \in Reqs :
       ~( /\ resp[r].kind = "exception"
          /\ resp[r].error \in {"get_csfloat_price", "get_steam_market_price"} )

C10_KeylessSkipped ==
    \A r \in Reqs :
       LET passed == SubSeq(Items(r), 1, idx[r] - 1)
       IN /\ pc[r] \in {"items", "fetch", "put", "jitter"} =>
                /\ NamesOf(resolved[r]) = KeyedNames(passed)
                /\ total_value[r] = SumPrices(resolved[r])
                /\ Len(item_details[r]) =
                      IF detailed[r] THEN Len(KeyedNames(passed)) ELSE 0
          /\ (pc[r] = "done" /\ resp[r].kind = "value" /\ ~resp[r].cached) =>
                /\ NamesOf(resolved[r]) = KeyedNames(Items(r))
                /\ total_value[r] = SumPrices(resolved[r])
                /\ resp[r].total = Round2(SumPrices(resolved[r]))
                /\ calls[r] <= 1 + Len(KeyedNames(Items(r)))
                /\ resp[r].has_items = detailed[r]
                /\ Len(resp[r].items) =
                      IF detailed[r] THEN Len(KeyedNames(Items(r))) ELSE 0
                /\ \A k \in MarketKeys :
                      detailed[r] =>
                         Count(NamesOf(resp[r].items), k)
                            = Count(KeyedNames(Items(r)), k)

C10_Witness ==
    \E r \in Reqs :
       /\ pc[r] = "done"
       /\ resp[r].kind = "value"
       /\ detailed[r]
       /\ Items(r) = <<Key("AK"), NoKey>>
       /\ Len(resp[r].items) = 1
       /\ total_value[r] = resolved[r][1].price
       /\ total_value[r] > 0

\* the market key get_item_price is resolving for request r
CurKey(r) == Items(r)[idx[r]].name

\* C11: a fetch that comes back with a price, zero included, is followed by
\* the write of exactly that price into item_prices; and get_item_price on a
\* key whose row holds 0 and is within its ttl (by the clock that wrote it)
\* takes the row as a hit: it returns 0 and calls no upstream.
C11_ZeroCached ==
    [][\A r \in Reqs :
         /\ (pc[r] = "fetch" /\ pc'[r] # "fetch" /\ resp'[r].kind # "exception")
               => pc'[r] = "put"
         /\ (pc[r] = "put" /\ pc'[r] # "put")
               => item_prices'[CurKey(r)] =
                     [present |-> TRUE, value |-> price[r],
                      expires_at |-> utcNow + ITEM_TTL]
         /\ ( /\ pc[r] = "items"
              /\ idx[r] <= Len(Items(r))
              /\ ~Keyless(Items(r)[idx[r]])
              /\ pc'[r] = "fetch" \/ Len(resolved'[r]) = Len(resolved[r]) + 1
              /\ item_prices[CurKey(r)].present
              /\ item_prices[CurKey(r)].value = 0
              /\ utcNow < item_prices[CurKey(r)].expires_at )
               => /\ pc'[r] = "items"
                  /\ resolved'[r][Len(resolved'[r])].price = 0
                  /\ ~resolved'[r][Len(resolved'[r])].fetched
                  /\ calls'[r] = calls[r]]_vars

\* request r went into the miss path of get_item_price for key k: it is
\* there now, it came back from it, or an exception ended it there
Missed(r, k) ==
    \/ \E i \in 1..Len(resolved[r]) :
          resolved[r][i].name = k /\ resolved[r][i].fetched
    \/ pc[r] \in {"fetch", "put", "jitter"} /\ CurKey(r) = k
    \/ /\ pc[r] = "done"
       /\ resp[r].kind = "exception"
       /\ idx[r] >= 1
       /\ CurKey(r) = k

\* the prices request r has written into item_prices for key k
Written(r, k) ==
    {resolved[r][i].price :
        i \in {j \in 1..Len(resolved[r]) :
                 resolved[r][j].name = k /\ resolved[r][j].fetched}}
    \cup (IF pc[r] = "jitter" /\ CurKey(r) = k THEN {price[r]} ELSE {})

\* C12: when two requests running at once both went into the miss path for
\* the same key, whatever the interleaving: a request that is over has
\* answered with a valuation, a request that is not over can take a step,
\* and the row of the key holds a price one of the two wrote, whole.
C12_RaceHarmless ==
    \A k \in MarketKeys :
       (Missed("r1", k) /\ Missed("r2", k)) =>
          /\ \A r \in Reqs : pc[r] = "done" => resp[r].kind = "value"
          /\ \A r \in Reqs : pc[r] # "done" => ENABLED Handle(r)
          /\ item_prices[k].present =>
                item_prices[k].value \in Written("r1", k) \cup Written("r2", k)
          /\ (\A r \in Reqs : pc[r] = "done") => item_prices[k].present

\* C13: a request that got past the inventory checks ends by writing its
\* total into inventory_values with ttl VAL_TTL, detailed or not; and a
\* request that is not detailed and finds the row of its user within that
\* ttl (by the clock that wrote it) is answered from the row, as a cache hit.
C13_TotalCachedThenHit ==
    [][\A r \in Reqs :
         /\ (pc[r] \in {"items", "fetch", "put", "jitter"} /\ pc'[r] = "done")
               => inventory_values'[steamid[r].s] =
                     [present |-> TRUE, value |-> total_value[r],
                      expires_at |-> utcNow + VAL_TTL]
         /\ ( /\ pc[r] = "cache"
              /\ pc'[r] # "cache"
              /\ ~detailed[r]
              /\ inventory_values[steamid[r].s].present
              /\ utcNow < inventory_values[steamid[r].s].expires_at )
               => /\ pc'[r] = "done"
                  /\ resp'[r].cached
                  /\ resp'[r].total = inventory_values[steamid[r].s].value]_vars

\* how many of the resolutions in rs went through a fetch
Fetched(rs) == Cardinality({i \in 1..Len(rs) : rs[i].fetched})

\* C14: the jitter sleep is taken only by a resolution that missed the cache,
\* once, after its write into item_prices and as the last thing before it
\* returns; a resolution served from item_prices returns in the step of the
\* lookup, without a call upstream, a write or a sleep.
C14_JitterOnlyAfterFetch ==
    [][\A r \in Reqs :
         /\ pc[r] # "idle" => jitters[r] = Fetched(resolved[r])
         /\ (pc'[r] # "idle" /\ jitters'[r] # jitters[r])
               => /\ pc[r] = "jitter"
                  /\ jitters'[r] = jitters[r] + 1
                  /\ writes[r] = jitters[r] + 1
                  /\ item_prices[CurKey(r)].present
                  /\ item_prices[CurKey(r)].value = price[r]
                  /\ resolved'[r] = Append(resolved[r],
                        [name |-> CurKey(r), price |-> price[r],
                         fetched |-> TRUE])
         /\ Len(resolved'[r]) = Len(resolved[r]) + 1
               => IF resolved'[r][Len(resolved'[r])].fetched
                  THEN jitters'[r] = jitters[r] + 1
                  ELSE /\ pc[r] = "items"
                       /\ jitters'[r] = jitters[r]
                       /\ calls'[r] = calls[r]
                       /\ writes'[r] = writes[r]
                       /\ UNCHANGED tables]_vars

C14_Witness ==
    \E r \in Reqs :
       /\ pc[r] = "items"
       /\ Len(resolved[r]) = 2
       /\ resolved[r][1].fetched
       /\ ~resolved[r][2].fetched
       /\ jitters[r] = 1
       /\ calls[r] = 2

\* C15: every attempt of safe_request that ends in a 429 or in a transport
\* failure is followed by a sleep of backoff times the attempt's number
\* (counted from 1), and every sleep is followed by a further attempt.
C15_SleepThenRetry ==
    LET t == fetch.trace
    IN \A i \in 1..Len(t) :
          /\ (t[i].e = "get" /\ t[i].o \in {"429", "timeout"})
                => /\ i < Len(t)
                   /\ t[i + 1] = SleepEvent(BACKOFF * ((i + 1) \div 2))
          /\ t[i].e = "sleep"
                => /\ i < Len(t)
                   /\ t[i + 1].e = "get"

\* C16: whatever the upstream answers, safe_request ends after at most
\* `retries` requests; the i-th request is the i-th answer's, so that a 429
\* and a transport failure use up one attempt each of the one budget; when
\* every answer is one of these two all `retries` attempts are made; and
\* when no answer has status 200 the call returns None.
C16_BoundedAttempts ==
    LET t == fetch.trace
        n == Attempts(t)
        gets == SelectSeq(t, LAMBDA ev : ev.e = "get")
    IN fetch.ret # "idle" =>
          /\ n <= fetch.retries
          /\ n >= 1
          /\ Len(t) <= 2 * fetch.retries
          /\ \A i \in 1..n : gets[i] = GetEvent(fetch.outs[i])
          /\ (\A i \in 1..Len(fetch.outs) : fetch.outs[i] \in {"429", "timeout"})
                => /\ n = fetch.retries
                   /\ Len(Sleeps(t)) = fetch.retries
          /\ (\A i \in 1..Len(fetch.outs) : fetch.outs[i] \notin {"200", "200-bad"})
                => fetch.ret = "none"

C16_Witness ==
    /\ fetch.retries = RETRIES
    /\ fetch.outs = <<"429", "timeout", "429">>
    /\ fetch.ret = "none"
    /\ Attempts(fetch.trace) = RETRIES

\* the elements of a breakdown that carry price p, in their order
WithPrice(details, p) == SelectSeq(details, LAMBDA d : d.price_usd = p)

\* C17: the items of a detailed valuation are in descending order of price,
\* and for every price the items carrying it are the elements of
\* item_details carrying it, in the order the loop appended them.
C17_SortedStable ==
    \A r \in Reqs :
       (pc[r] = "done" /\ resp[r].kind = "value" /\ resp[r].has_items) =>
          LET its == resp[r].items
          IN /\ Len(its) = Len(item_details[r])
             /\ \A i, j \in 1..Len(its) :
                   i < j => its[i].price_usd >= its[j].price_usd
             /\ \A i \in 1..Len(its) :
                   WithPrice(its, its[i].price_usd)
                      = WithPrice(item_details[r], its[i].price_usd)

C17_Witness ==
    \E r \in Reqs :
       /\ pc[r] = "done"
       /\ resp[r].kind = "value"
       /\ resp[r].has_items
       /\ Len(resp[r].items) = 2
       /\ resp[r].items[1].name = "AK"
       /\ resp[r].items[2].name = "AWP"
       /\ resp[r].items[1].price_usd = resp[r].items[2].price_usd
       /\ resp[r].items[1].price_usd > 0

\* C18: no row of item_prices holds a negative price and no row of
\* inventory_values holds a negative total.
C18_NonNegative ==
    /\ \A k \in MarketKeys :
          item_prices[k].present => item_prices[k].value >= 0
    /\ \A u \in SteamIds :
          inventory_values[u].present => inventory_values[u].value >= 0

\* C19: the row a request writes into inventory_values holds the very total
\* its response reports, so that a later cache hit, which answers with the
\* row, shows the number the computing request showed.
C19_SameTotalCachedAndReported ==
    \A r \in Reqs :
       (pc[r] = "done" /\ resp[r].kind = "value" /\ ~resp[r].cached) =>
          /\ inventory_values[steamid[r].s].present
          /\ inventory_values[steamid[r].s].value = resp[r].total

\* C20: the step in which a request ends with "Invalid URL", "Failed to fetch
\* inventory" or "No items found" leaves inventory_values and item_prices as
\* they were; such a request has resolved no price and written to no table,
\* so the two tables are as they were when it began.
C20_ErrorsLeaveCaches ==
    [][\A r \in Reqs :
         (resp'[r].kind = "error" /\ resp[r].kind # "error")
            => /\ UNCHANGED tables
               /\ pc'[r] = "done"
               /\ writes'[r] = 0
               /\ resolved'[r] = <<>>
               /\ jitters'[r] = 0
               /\ calls'[r] <= 1
               /\ pc[r] \in {"idle", "inventory"}]_vars

C20_Witness ==
    \E r \in Reqs :
       /\ pc[r] = "done"
       /\ resp[r].kind = "error"
       /\ resp[r].status = 502
       /\ detailed[r]
       /\ inventory_values[steamid[r].s].present
       /\ inventory_values[steamid[r].s].value > 0


=============================================================================
